---------------------------- MODULE Spec2Model ----------------------------
(***************************************************************************)
(* OAuth credential lifecycle of the webapp package: the OAuth 1.0a        *)
(* three-legged flow (oauth10a.py), the OAuth 2.0 PKCE flow                *)
(* (oauth20pkce.py), the credential tables (models.py) and the             *)
(* impersonator action pipeline (oauth10areport.py).                       *)
(*                                                                         *)
(* Every route handler is one action.  The remote API's answers and the    *)
(* callback's query parameters are the inputs of an action, drawn from     *)
(* small sets.  `last' records what the most recent handler call did.      *)
(***************************************************************************)
EXTENDS Integers, Sequences, FiniteSets, TLC

VARIABLES
    session,      \* per browser session: the Flask session dict (key -> value)
    oauth_store,  \* process-wide dict: request token -> hashed request-token secret
    handshakes,   \* request tokens the provider has issued, in order: <<[sess, token, secret]>>
    oauth10a,     \* table OAuth10a_3Legged: email -> row
    oauth20pkce,  \* table OAuth20_PKCE: email -> row
    users,        \* table All_Users: email -> row
    nonce,        \* number of random (code_verifier, state) pairs drawn so far
    now,          \* wall clock
    last,         \* what the most recent handler call did
    pl            \* the running action pipeline

flowVars == <<session, oauth_store, handshakes, oauth10a, oauth20pkce, users, nonce, now, last>>
vars == <<session, oauth_store, handshakes, oauth10a, oauth20pkce, users, nonce, now, last, pl>>

----------------------------------------------------------------------------
(* Bounds of the model *)

MaxHandshakes == 2   \* request tokens the provider issues in one run
MaxNonce == 2        \* random (code_verifier, state) pairs drawn in one run
MaxTime == 1         \* clock ticks in one run
MaxTargets == 2      \* length of the pipeline's target list

----------------------------------------------------------------------------
(* Values *)

NONE == "none"       \* Python None: an absent query parameter, an absent dict key, SQL NULL
EMPTY == ""          \* a query parameter that is present and empty

\* Python truthiness of an Optional[str]
Truthy(v) == v \notin {NONE, EMPTY}

Sessions == {"X", "Y"}
Users == {"u1", "u2"}

\* current_user.email of the browser session (both sessions are logged in)
UserOf(s) == IF s = "X" THEN "u1" ELSE "u2"

TwitterIds == {"1", "2"}
ScreenNames == {"bob", "carol"}
Verifiers == {"v1"}
\* access credentials the provider hands out: (oauth_token, oauth_token_secret)
AccessCredentials == {<<"at1", "as1">>, <<"at2", "as2">>}
StatusCodes == {"200", "401"}

\* The k-th request token the provider issues, and its secret
RequestToken(k) == "rt" \o ToString(k)
RequestSecret(k) == "rs" \o ToString(k)

\* The n-th random code verifier / state
CodeVerifier(n) == "cv" \o ToString(n)

\* A generator that hands out the same state on every draw
StateRepeated(n) == "st1"

\* secrets.token_hex(128)
State(n) == "st" \o ToString(n)

\* werkzeug generate_password_hash: not the secret itself
generate_password_hash(secret) == "hash:" \o secret

\* dict.get(key) of a Flask session
SessionGet(s, key) == IF key \in DOMAIN session[s] THEN session[s][key] ELSE NONE

\* d with d[key] = value
DictSet(d, key, value) == [k \in (DOMAIN d) \cup {key} |-> IF k = key THEN value ELSE d[k]]

\* d without key
DictDel(d, key) == [k \in (DOMAIN d) \ {key} |-> d[k]]

----------------------------------------------------------------------------
(* The tables' constraints (models.py) *)

\* OAuth10a_3Legged: email is the primary key (the function's domain), twitter_id is unique
OAuth10aConstraints(tbl) ==
    \A a, b \in DOMAIN tbl : a # b => tbl[a].twitter_id # tbl[b].twitter_id

\* All_Users: twitter_id unique (NULLs are distinct), account_name unique
UserConstraints(tbl) ==
    \A a, b \in DOMAIN tbl : a # b =>
        /\ tbl[a].account_name # tbl[b].account_name
        /\ (tbl[a].twitter_id # NONE => tbl[a].twitter_id # tbl[b].twitter_id)

\* OAuth20_PKCE: email is the primary key, twitter_id is unique
OAuth20PKCEConstraints(tbl) ==
    \A a, b \in DOMAIN tbl : a # b =>
        (tbl[a].twitter_id # NONE => tbl[a].twitter_id # tbl[b].twitter_id)

----------------------------------------------------------------------------
(* What a handler call did *)

NoCalls == <<>>

NoData == <<NONE, NONE, NONE>>

\* op: the handler; args: the query parameters it was called with (for a begin: what it was
\* given or drew); calls: the remote requests it issued; data: what it hands back (the
\* identity the provider returned, the status of an error response, the parameters of an
\* authorization URL)
Result(op, s, outcome, calls, args, data) ==
    [op |-> op, sess |-> s, outcome |-> outcome, calls |-> calls, args |-> args, data |-> data]

\* one remote request: its endpoint, the token or code it carries, the secret it is signed with
Call(kind, key, secret, status) == [kind |-> kind, key |-> key, secret |-> secret, status |-> status]

NoPipeline == [variant |-> NONE, user |-> NONE, token |-> NONE, targets |-> <<>>, i |-> 1,
               pc |-> "idle", calls |-> <<>>, response_list |-> <<>>]

Init ==
    /\ session = [s \in Sessions |-> <<>>]
    /\ oauth_store = <<>>
    /\ handshakes = <<>>
    /\ oauth10a = <<>>
    /\ oauth20pkce = <<>>
    /\ users = [u \in Users |-> [twitter_id |-> NONE,
                                 account_name |-> IF u = "u1" THEN "alice" ELSE "bob"]]
    /\ nonce = 0
    /\ now = 0
    /\ last = Result("init", "X", "none", NoCalls, <<NONE, NONE, NONE>>, NoData)
    /\ pl = NoPipeline

----------------------------------------------------------------------------
(* OAuth 1.0a begin: route /oauth10aindex *)

\* A handler that gives up on the request token only when the provider itself failed
RequestTokenServerError(status) == status = "500"

\* if resp['status'] != '200':
RequestTokenFailed(status) == status # "200"

\* A field of the response body: its valid characters, and whether it also holds bytes that
\* are not UTF-8.  bytes.decode('utf-8', 'ignore') drops those bytes and never raises.
DecodeIgnore(field) == field[1]

\* handle_twitter_api_error: the response's status code is the TwitterAPIError's
handle_twitter_api_error(status) == <<status, NONE, NONE>>

\* A begin() that keeps only the latest request token in the process-wide map
oauth10aindexLatestOnly(s, status, body) ==
    /\ UNCHANGED <<oauth10a, oauth20pkce, users, nonce, now, pl>>
    /\ LET k == Len(handshakes) + 1
           call == Call("request_token", NONE, NONE, status)
       IN  IF RequestTokenFailed(status) \/ body = "other"
           THEN /\ last' = Result("oauth10aindex", s,
                                  IF RequestTokenFailed(status) THEN "ProviderError" ELSE "KeyError",
                                  <<call>>, <<NONE, body, NONE>>,
                                  IF RequestTokenFailed(status) THEN handle_twitter_api_error(status)
                                  ELSE NoData)
                /\ UNCHANGED <<session, oauth_store, handshakes>>
           ELSE /\ k <= MaxHandshakes
                /\ handshakes' = Append(handshakes,
                                        [sess |-> s, token |-> RequestToken(k), secret |-> RequestSecret(k)])
                /\ oauth_store' = DictSet(<<>>, RequestToken(k), generate_password_hash(RequestSecret(k)))
                /\ session' = [session EXCEPT ![s] = DictSet(@, "oauth_token_secret", RequestSecret(k))]
                /\ last' = Result("oauth10aindex", s, "RequestTokenObtained", <<call>>,
                                  <<RequestToken(k), body, NONE>>, NoData)

\* body: "tokens" (both fields, valid UTF-8), "undecodable" (both fields, with bytes that are
\* not UTF-8), "other" (a body without the fields)
oauth10aindex(s, status, body) ==
    /\ UNCHANGED <<oauth10a, oauth20pkce, users, nonce, now, pl>>
    /\ LET k == Len(handshakes) + 1
           oauth_token == DecodeIgnore(<<RequestToken(k), body = "undecodable">>)
           oauth_token_secret == DecodeIgnore(<<RequestSecret(k), body = "undecodable">>)
           call == Call("request_token", NONE, NONE, status)
       IN  IF RequestTokenFailed(status)
           THEN \* raise TwitterAPIError(status), rendered by handle_twitter_api_error
                /\ last' = Result("oauth10aindex", s, "ProviderError", <<call>>, <<NONE, body, NONE>>,
                                  handle_twitter_api_error(status))
                /\ UNCHANGED <<session, oauth_store, handshakes>>
           ELSE IF body = "other"
           THEN \* request_token[b'oauth_token'] raises KeyError, which nothing catches
                /\ last' = Result("oauth10aindex", s, "KeyError", <<call>>, <<NONE, body, NONE>>, NoData)
                /\ UNCHANGED <<session, oauth_store, handshakes>>
           ELSE /\ k <= MaxHandshakes
                /\ handshakes' = Append(handshakes,
                                        [sess |-> s, token |-> oauth_token, secret |-> oauth_token_secret])
                /\ oauth_store' = DictSet(oauth_store, oauth_token,
                                          generate_password_hash(oauth_token_secret))
                /\ session' = [session EXCEPT ![s] = DictSet(@, "oauth_token_secret", oauth_token_secret)]
                /\ last' = Result("oauth10aindex", s, "RequestTokenObtained", <<call>>,
                                  <<oauth_token, body, NONE>>, NoData)

----------------------------------------------------------------------------
(* OAuth 1.0a complete: route /oauth10acallback *)

\* A handler that kept the request-token secret in a process-wide variable instead
LatestRequestSecret(s) ==
    IF handshakes = <<>> THEN NONE ELSE handshakes[Len(handshakes)].secret

\* oauth_token_secret = session.get('oauth_token_secret')
StoredRequestSecret(s) == SessionGet(s, "oauth_token_secret")

\* if oauth_denied in session: del session[oauth_denied]
DeniedSession(d, oauth_denied) ==
    IF oauth_denied \in DOMAIN d THEN DictDel(d, oauth_denied) ELSE d

\* the row built for a user who has none
NewOAuth10aRecord(user_id, screen_name, tok, sec, verifier) ==
    [twitter_id |-> user_id, account_name |-> screen_name, oauth_token |-> tok,
     oauth_token_secret |-> sec, oauth_verifier |-> verifier,
     date_created |-> now, last_token_refresh_date |-> now,
     previous_twitter_account_info |-> <<>>]

\* "Check and update or create OAuth10a record": the table as the handler leaves it before commit
UpsertOAuth10a(tbl, email, user_id, screen_name, tok, sec, verifier) ==
    IF email \in DOMAIN tbl
    THEN [tbl EXCEPT ![email] = [@ EXCEPT !.twitter_id = user_id,
                                          !.account_name = screen_name,
                                          !.oauth_token = tok,
                                          !.oauth_token_secret = sec,
                                          !.oauth_verifier = verifier]]
    ELSE DictSet(tbl, email, NewOAuth10aRecord(user_id, screen_name, tok, sec, verifier))

\* A handler that brings the user's provider id up to date and leaves the account name
UpsertUserIdOnly(tbl, email, user_id, screen_name) ==
    IF email \in DOMAIN tbl
    THEN [tbl EXCEPT ![email] = [@ EXCEPT !.twitter_id = user_id]]
    ELSE DictSet(tbl, email, [twitter_id |-> user_id, account_name |-> screen_name])

\* "Check and update or create User record"
UpsertUser(tbl, email, user_id, screen_name) ==
    IF email \in DOMAIN tbl
    THEN [tbl EXCEPT ![email] = [@ EXCEPT !.twitter_id = user_id, !.account_name = screen_name]]
    ELSE DictSet(tbl, email, [twitter_id |-> user_id, account_name |-> screen_name])

\* A commit that enforces the credential table's constraints only
CommitChecksCredentialsOnly(o, u, email) ==
    /\ OAuth10aConstraints(o)
    /\ email \in DOMAIN users

\* db.session.commit() succeeds: no constraint of either table is violated; a User row
\* built by the handler has no password (NOT NULL), so it can never be committed
CommitSucceeds(o, u, email) ==
    /\ OAuth10aConstraints(o)
    /\ UserConstraints(u)
    /\ email \in DOMAIN users

\* A handler that expects the denial as a flag instead of the denied request token
DenialFlagged(oauth_denied) == oauth_denied = "true"

\* if oauth_denied:
DenialSignalled(oauth_denied) == Truthy(oauth_denied)

\* A handler that rejects the callback only when both parameters are missing
BothParametersMissing(oauth_token, oauth_verifier) ==
    ~Truthy(oauth_token) /\ ~Truthy(oauth_verifier)

\* if not oauth_token or not oauth_verifier:
ParametersMissing(oauth_token, oauth_verifier) ==
    ~Truthy(oauth_token) \/ ~Truthy(oauth_verifier)

\* A handler that tests the secret for the empty string only, so that None passes
SecretEmpty(oauth_token_secret) == oauth_token_secret = EMPTY

\* if not oauth_token_secret:
SecretMissing(oauth_token_secret) == ~Truthy(oauth_token_secret)

\* if resp['status'] != '200': after the access-token exchange
AccessTokenFailed(status) == status # "200"

\* A handler that gives up on the identity request only when the provider itself failed
VerifyServerError(status) == status = "500"

\* if resp.status != 200: after the identity-verification request
VerifyFailed(status) == status # "200"

\* The remote API's answers are drawn where the handler issues the request.
oauth10acallback(s, oauth_token, oauth_verifier, oauth_denied) ==
    LET email == UserOf(s)
        args == <<oauth_token, oauth_verifier, oauth_denied>>
        oauth_token_secret == StoredRequestSecret(s)
        Fail(outcome, calls, data) ==
            /\ last' = Result("oauth10acallback", s, outcome, calls, args, data)
            /\ UNCHANGED <<session, oauth10a, users, nonce>>
    IN  /\ UNCHANGED <<oauth_store, handshakes, oauth20pkce, now, pl>>
        /\ IF DenialSignalled(oauth_denied)
           THEN /\ session' = [session EXCEPT ![s] = DeniedSession(@, oauth_denied)]
                /\ last' = Result("oauth10acallback", s, "Denied", NoCalls, args, NoData)
                /\ UNCHANGED <<oauth10a, users, nonce>>
           ELSE IF ParametersMissing(oauth_token, oauth_verifier)
           THEN Fail("MissingParameters", NoCalls, NoData)
           ELSE IF SecretMissing(oauth_token_secret)
           THEN Fail("MissingSessionSecret", NoCalls, NoData)
           ELSE \E accStatus \in StatusCodes :
                LET access == Call("access_token", oauth_token, oauth_token_secret, accStatus)
                IN  IF AccessTokenFailed(accStatus)
                    THEN Fail("ProviderError", <<access>>, NoData)
                    ELSE \E cred \in AccessCredentials, verStatus \in StatusCodes :
                         LET real_oauth_token == cred[1]
                             real_oauth_token_secret == cred[2]
                             verify == Call("verify_credentials", real_oauth_token,
                                            real_oauth_token_secret, verStatus)
                         IN  IF VerifyFailed(verStatus)
                             THEN Fail("ProviderError", <<access, verify>>, NoData)
                             ELSE \E user_id \in TwitterIds, screen_name \in ScreenNames :
                                  LET o == UpsertOAuth10a(oauth10a, email, user_id, screen_name,
                                                          real_oauth_token, real_oauth_token_secret,
                                                          oauth_verifier)
                                      u == UpsertUser(users, email, user_id, screen_name)
                                  IN  IF ~OAuth10aConstraints(o)
                                      THEN \* User.query...first() flushes the pending credential
                                           \* row (the session's autoflush) before the try block:
                                           \* the IntegrityError is raised there and nothing
                                           \* catches it; the transaction is never committed
                                           Fail("UncaughtIntegrityError", <<access, verify>>,
                                                <<user_id, screen_name, NONE>>)
                                      ELSE IF ~CommitSucceeds(o, u, email)
                                      THEN \* IntegrityError: db.session.rollback(), "Database error"
                                           Fail("DatabaseError", <<access, verify>>,
                                                <<user_id, screen_name, NONE>>)
                                      ELSE /\ nonce < MaxNonce
                                           /\ oauth10a' = o
                                           /\ users' = u
                                           /\ nonce' = nonce + 1
                                           /\ session' = [session EXCEPT ![s] =
                                                DictSet(DictSet(@, "code_verifier", CodeVerifier(nonce + 1)),
                                                        "state", State(nonce + 1))]
                                           /\ last' = Result("oauth10acallback", s, "Reconciled",
                                                             <<access, verify>>, args,
                                                             <<user_id, screen_name, NONE>>)

\* request tokens a callback in session s can carry: absent, one the provider issued to a
\* begin() of s, or the first token issued (to whichever session)
CallbackTokens(s) ==
    {NONE, RequestToken(1)}
    \cup {handshakes[k].token : k \in {j \in 1..Len(handshakes) : handshakes[j].sess = s}}

\* query strings of /oauth10acallback, as <<oauth_token, oauth_verifier, denied>>: an
\* authorization with or without its parameters, a denial alone (naming the denied request
\* token), a denial with the others (naming a key of the session), and parameters that are
\* present and empty
CallbackQueries(s) ==
    {<<t, v, NONE>> : t \in CallbackTokens(s), v \in Verifiers}
    \cup {<<RequestToken(1), NONE, NONE>>}
    \cup {<<NONE, NONE, RequestToken(1)>>, <<RequestToken(1), "v1", "oauth_token_secret">>}
    \cup {<<EMPTY, "v1", NONE>>, <<NONE, NONE, EMPTY>>}

----------------------------------------------------------------------------
(* OAuth 2.0 PKCE begin: route /oauth20pkceindex *)

\* range(128)
VerifierLength == 128

\* the string secrets.choice draws from, character by character
VerifierAlphabet ==
    <<"A", "B", "C", "D", "E", "F", "G", "H", "I", "J", "K", "L", "M",
      "N", "O", "P", "Q", "R", "S", "T", "U", "V", "W", "X", "Y", "Z",
      "a", "b", "c", "d", "e", "f", "g", "h", "i", "j", "k", "l", "m",
      "n", "o", "p", "q", "r", "s", "t", "u", "v", "w", "x", "y", "z",
      "0", "1", "2", "3", "4", "5", "6", "7", "8", "9", "-", ".", "_",
      "~">>

\* the index secrets.choice draws for the i-th character of the n-th verifier
Choice(n, i) == ((i * n + n) % Len(VerifierAlphabet)) + 1

\* A generator whose loop stops one character short
VerifierCharsShort(n) == [i \in 1..(VerifierLength - 1) |-> VerifierAlphabet[Choice(n, i)]]

\* ''.join(secrets.choice(...) for _ in range(128)): the characters of CodeVerifier(n)
VerifierChars(n) == [i \in 1..VerifierLength |-> VerifierAlphabet[Choice(n, i)]]

\* base64url(sha256(code_verifier)) without padding: a one-way image of the verifier
CodeChallenge(code_verifier) == "S256:" \o code_verifier

\* the parameters of the authorization URL that the flow generates
AuthorizationUrl(state, code_challenge) == <<state, code_challenge, "S256">>

\* A begin() that keeps the state and verifier a session already holds
oauth20pkce_indexKeepsFirst(s) ==
    /\ nonce < MaxNonce
    /\ nonce' = nonce + 1
    /\ LET kept == "state" \in DOMAIN session[s]
           code_verifier == IF kept THEN SessionGet(s, "code_verifier") ELSE CodeVerifier(nonce + 1)
           state == IF kept THEN SessionGet(s, "state") ELSE State(nonce + 1)
       IN  /\ session' = [session EXCEPT ![s] =
                            DictSet(DictSet(@, "code_verifier", code_verifier), "state", state)]
           /\ last' = Result("oauth20pkce_index", s, "AuthorizationRequested", NoCalls,
                             <<NONE, code_verifier, state>>,
                             AuthorizationUrl(state, CodeChallenge(code_verifier)))
    /\ UNCHANGED <<oauth_store, handshakes, oauth10a, oauth20pkce, users, now, pl>>

\* route /oauth20pkceindex
oauth20pkce_index(s) ==
    /\ nonce < MaxNonce
    /\ nonce' = nonce + 1
    /\ LET code_verifier == CodeVerifier(nonce + 1)
           code_challenge == CodeChallenge(code_verifier)
           state == State(nonce + 1)
       IN  /\ session' = [session EXCEPT ![s] =
                            DictSet(DictSet(@, "code_verifier", code_verifier), "state", state)]
           /\ last' = Result("oauth20pkce_index", s, "AuthorizationRequested", NoCalls,
                             <<NONE, code_verifier, state>>,
                             AuthorizationUrl(state, code_challenge))
    /\ UNCHANGED <<oauth_store, handshakes, oauth10a, oauth20pkce, users, now, pl>>

----------------------------------------------------------------------------
(* OAuth 2.0 PKCE complete: route /oauth20pkcecallback *)

PkceAccessTokens == {"pa1", "pa2"}
PkceRefreshTokens == {NONE, "pr1"}
PkceUsernames == {"carol"}

\* A state check that is skipped while the session holds no state
StateRejectedIfStored(s, state) ==
    "state" \in DOMAIN session[s] /\ state # session[s]["state"]

\* if state != session.get('state'): the callback is rejected
StateRejected(s, state) == state # SessionGet(s, "state")

\* A handler that knows one error code only
ErrorIsAccessDenied(error) == error = "access_denied"

\* if error:
ErrorSignalled(error) == Truthy(error)

\* A handler that tests the verifier for the empty string only, so that None passes
VerifierEmpty(code_verifier) == code_verifier = EMPTY

\* if not code_verifier:
VerifierMissing(code_verifier) == ~Truthy(code_verifier)

\* A handler that gives up on the exchange only when the provider itself failed
ExchangeServerError(status) == status = "500"

\* if response.status_code != 200: after the token exchange
ExchangeFailed(status) == status # "200"

\* A handler that gives up on the identity request only when the provider itself failed
IdentityServerError(status) == status = "500"

\* if user_response.status_code != 200: after the identity request
IdentityFetchFailed(status) == status # "200"

\* An update that stores whatever the token response holds, a missing refresh token included
RefreshTokenOverwritten(stored, issued) == issued

\* token_data.get('refresh_token', existing_user.refresh_token)
RefreshTokenKept(stored, issued) == IF issued # NONE THEN issued ELSE stored

\* A handler that re-authorizes an existing user without storing the new access token
UpdatedPkceRecordKeepsToken(row, twitter_username, access_token, refresh_token, state, code_verifier, user_id) ==
    [row EXCEPT !.account_name = twitter_username,
                !.refresh_token = RefreshTokenKept(@, refresh_token),
                !.state = state,
                !.code_verifier = code_verifier,
                !.twitter_id = user_id,
                !.last_token_refresh_date = now]

\* the row of an existing user after the handler's assignments
UpdatedPkceRecord(row, twitter_username, access_token, refresh_token, state, code_verifier, user_id) ==
    [row EXCEPT !.account_name = twitter_username,
                !.access_token = access_token,
                !.refresh_token = RefreshTokenKept(@, refresh_token),
                !.state = state,
                !.code_verifier = code_verifier,
                !.twitter_id = user_id,
                !.last_token_refresh_date = now]

\* the row built for a user who has none
NewPkceRecord(twitter_username, access_token, refresh_token, state, code_verifier, user_id) ==
    [twitter_id |-> user_id, account_name |-> twitter_username, access_token |-> access_token,
     refresh_token |-> refresh_token, state |-> state, code_verifier |-> code_verifier,
     date_created |-> now, last_token_refresh_date |-> now]

oauth20pkcecallback(s, error, code, state) ==
    LET email == UserOf(s)
        args == <<error, code, state>>
        code_verifier == SessionGet(s, "code_verifier")
        Fail(outcome, calls, data) ==
            /\ last' = Result("oauth20pkcecallback", s, outcome, calls, args, data)
            /\ UNCHANGED oauth20pkce
    IN  /\ UNCHANGED <<session, oauth_store, handshakes, oauth10a, users, nonce, now, pl>>
        /\ IF ErrorSignalled(error)
           THEN Fail("ProviderDenied", NoCalls, NoData)
           ELSE IF StateRejected(s, state)
           THEN Fail("StateMismatch", NoCalls, NoData)
           ELSE IF VerifierMissing(code_verifier)
           THEN Fail("MissingVerifier", NoCalls, NoData)
           ELSE \E tokStatus \in StatusCodes :
                LET exchange == Call("token", code, code_verifier, tokStatus)
                IN  IF ExchangeFailed(tokStatus)
                    THEN Fail("TokenExchangeError", <<exchange>>, NoData)
                    ELSE \E access_token \in PkceAccessTokens, refresh_token \in PkceRefreshTokens,
                            infoStatus \in StatusCodes :
                         LET me == Call("users_me", access_token, NONE, infoStatus)
                         IN  IF IdentityFetchFailed(infoStatus)
                             THEN Fail("IdentityFetchError", <<exchange, me>>, NoData)
                             ELSE \E user_id \in TwitterIds, twitter_username \in PkceUsernames :
                                  LET data == <<user_id, twitter_username, refresh_token>> IN
                                  IF email \in DOMAIN oauth20pkce
                                  THEN LET p == [oauth20pkce EXCEPT ![email] =
                                                   UpdatedPkceRecord(@, twitter_username, access_token,
                                                       refresh_token, state, code_verifier, user_id)]
                                       IN  IF OAuth20PKCEConstraints(p)
                                           THEN /\ oauth20pkce' = p
                                                /\ last' = Result("oauth20pkcecallback", s, "Reconciled",
                                                                  <<exchange, me>>, args, data)
                                           ELSE \* db.session.commit() outside any try
                                                Fail("UncaughtIntegrityError", <<exchange, me>>, data)
                                  ELSE LET p == DictSet(oauth20pkce, email,
                                                   NewPkceRecord(twitter_username, access_token,
                                                       refresh_token, state, code_verifier, user_id))
                                       IN  IF OAuth20PKCEConstraints(p)
                                           THEN /\ oauth20pkce' = p
                                                /\ last' = Result("oauth20pkcecallback", s, "Reconciled",
                                                                  <<exchange, me>>, args, data)
                                           ELSE \* except IntegrityError: db.session.rollback()
                                                Fail("IntegrityError", <<exchange, me>>, data)

\* values of the callback's `state' parameter: absent, empty, made up, or one drawn so far
CallbackStates == {NONE, EMPTY, "forged"} \cup {State(n) : n \in 1..nonce}

Codes == {NONE, "c1"}

\* query strings of /oauth20pkcecallback, as <<error, code, state>>
PkceCallbackQueries ==
    {<<NONE, c, st>> : c \in Codes, st \in CallbackStates}
    \cup {<<"access_denied", NONE, NONE>>}
    \cup {<<e, "c1", st>> : e \in {"access_denied", "server_error"}, st \in {"forged", State(1)}}
    \cup {<<EMPTY, "c1", "forged">>}

----------------------------------------------------------------------------
(* The impersonator action pipeline (oauth10areport.py).  Two functions implement it:  *)
(* impersonatingusers, which the POST route of oauth10a.py calls, and the generator    *)
(* oauth10areportimpersonators.  One action per remote call.                           *)

Handles == {"a", "b"}

\* impersonators_list = contents[1].split(","): never empty
TargetLists == UNION {[1..n -> Handles] : n \in 1..MaxTargets}

\* what oauth.post gives: a response with a status code, or an exception
PostResults == {"200", "403", "exception"}

\* raise_for_status(): raises on a 4xx or 5xx status
RaisesForStatus(status) == status = "403"

\* the credential the pipeline signs with: current_user.oauth10a[0].oauth_token, else None
PipelineToken(u) == IF u \in DOMAIN oauth10a THEN oauth10a[u].oauth_token ELSE NONE

\* one remote call: the target's index in the list, the action, what oauth.post gave
Post(i, action, result) == [i |-> i, action |-> action, result |-> result]

\* one item of the output: the target's index, the action, whether it is a success message
Entry(i, action, ok) == [i |-> i, action |-> action, ok |-> ok]

\* the first action of the next target, or the end of the loop
NextTarget(p) == IF p.i < Len(p.targets) THEN [p EXCEPT !.i = @ + 1, !.pc = "mute"]
                                         ELSE [p EXCEPT !.pc = "done"]

PipelineStart(variant, u, targets) ==
    /\ pl.pc \in {"idle", "done", "raised"}
    /\ pl' = [variant |-> variant, user |-> u, token |-> PipelineToken(u), targets |-> targets,
              i |-> 1, pc |-> "mute", calls |-> <<>>, response_list |-> <<>>]
    /\ UNCHANGED flowVars

\* A pipeline that repeats the mute call of a target until it succeeds
PipelineMuteRetrying(result) ==
    /\ pl.pc = "mute"
    /\ LET ok == result # "exception" /\ ~RaisesForStatus(result)
       IN  pl' = [pl EXCEPT !.calls = Append(@, Post(pl.i, "mute", result)),
                            !.response_list = Append(@, Entry(pl.i, "mute", ok)),
                            !.pc = IF ~ok /\ Len(pl.calls) < 2 * MaxTargets THEN "mute"
                                   ELSE IF pl.variant = "oauth10areportimpersonators"
                                   THEN "block" ELSE "report"]
    /\ UNCHANGED flowVars

\* try: oauth.post(mute_url); raise_for_status() / except Exception: in both functions
PipelineMute(result) ==
    /\ pl.pc = "mute"
    /\ pl' = [pl EXCEPT !.calls = Append(@, Post(pl.i, "mute", result)),
                        !.response_list = Append(@, Entry(pl.i, "mute",
                                             result # "exception" /\ ~RaisesForStatus(result))),
                        !.pc = IF pl.variant = "oauth10areportimpersonators" THEN "block" ELSE "report"]
    /\ UNCHANGED flowVars

\* the block step exists in the generator only
PipelineBlock(result) ==
    /\ pl.pc = "block"
    /\ pl' = [pl EXCEPT !.calls = Append(@, Post(pl.i, "block", result)),
                        !.response_list = Append(@, Entry(pl.i, "block",
                                             result # "exception" /\ ~RaisesForStatus(result))),
                        !.pc = "report"]
    /\ UNCHANGED flowVars

\* response = oauth.post(report_url) outside any try, then response.json() outside any try
PipelineReport(result, body) ==
    /\ pl.pc = "report"
    /\ LET called == [pl EXCEPT !.calls = Append(@, Post(pl.i, "report", result))]
           logged == [called EXCEPT !.response_list = Append(@, Entry(pl.i, "report", result = "200"))]
       IN  pl' = IF result = "exception"
                 THEN [called EXCEPT !.pc = "raised"]
                 ELSE IF body # "json"
                 THEN [logged EXCEPT !.pc = "raised"]
                 ELSE NextTarget([logged EXCEPT !.response_list =
                                     Append(@, Entry(pl.i, "json_response", TRUE))])
    /\ UNCHANGED flowVars

----------------------------------------------------------------------------
(* What a handler call writes to the log and hands to the templates *)

\* app.config['CLIENT_ID_AKA_CONSUMER_KEY_SECRET']
ClientSecret == "client_secret"

\* the values the handler call r wrote to the log (r is the most recent call)
Logged(r) ==
    IF r.op = "oauth10aindex" /\ r.outcome = "RequestTokenObtained"
    THEN \* logging.debug(f"Request Token: {request_token}"): the whole response dict
         {handshakes[Len(handshakes)].token, handshakes[Len(handshakes)].secret}
    ELSE IF r.op = "oauth20pkce_index"
    THEN \* "Code Verifier", "Code Challenge", "Authorization URL"
         {r.args[2], r.data[2], r.data[1]}
    ELSE IF r.op = "oauth20pkcecallback"
    THEN IF r.outcome = "ProviderDenied" THEN {r.args[1]}
         ELSE \* "Received code", "Received state"
              {r.args[2], r.args[3]}
              \* "Code Verifier from session"
              \cup (IF r.outcome # "StateMismatch" THEN {SessionGet(r.sess, "code_verifier")} ELSE {})
              \* "Token request data": client_secret and code_verifier among its fields
              \cup (IF r.calls # NoCalls THEN {ClientSecret, r.calls[1].secret} ELSE {})
              \* "Access Token"
              \cup (IF Len(r.calls) = 2 THEN {r.calls[2].key} ELSE {})
    ELSE {}

\* the values the handler call r handed to render_template
Rendered(r) ==
    IF r.op = "oauth10aindex" /\ r.outcome = "RequestTokenObtained"
    THEN {r.args[1]}
    ELSE IF r.op = "oauth10acallback" /\ r.outcome = "Reconciled"
    THEN {r.data[1], r.data[2], SessionGet(r.sess, "state"),
          CodeChallenge(SessionGet(r.sess, "code_verifier"))}
    ELSE IF r.op = "oauth20pkce_index"
    THEN {r.data[1], r.data[2], r.data[3]}
    ELSE IF r.op = "oauth20pkcecallback" /\ r.outcome = "Reconciled"
    THEN {r.data[1], r.data[2]}
    ELSE {}

----------------------------------------------------------------------------
(* The POST route /oauth10areportimpersonators and its decorator (oauth10a.py) *)

\* timedelta(days=30); the clock counts days
ThirtyDays == 30

\* A placeholder: "return oauth_instance"
refresh_oauth_token(oauth_instance) == oauth_instance

\* kwargs.get('oauth_instance') and its last_token_refresh_date < thirty_days_ago
RefreshDue(kwargs) ==
    /\ "oauth_instance" \in DOMAIN kwargs
    /\ kwargs["oauth_instance"].last_token_refresh_date < now - ThirtyDays

\* wrapped(*args, **kwargs): the keyword arguments the view function is called with
needs_token_refresh(kwargs) ==
    IF RefreshDue(kwargs)
    THEN DictSet(kwargs, "oauth_instance", refresh_oauth_token(kwargs["oauth_instance"]))
    ELSE kwargs

\* the keyword arguments Flask calls a view with: the variables of its URL rule, here none
ViewArgs == <<>>

\* def impersonatingusers(impersonated_channel, current_user, oauth_session)
ImpersonatingusersParameters == <<"impersonated_channel", "current_user", "oauth_session">>

\* response = impersonatingusers(impersonated_channel)
ImpersonatingusersArguments == <<"impersonated_channel">>

\* the decorated view function, called by Flask for a POST of session s
oauth10areportimpersonators(s, impersonated_channel, targets) ==
    LET u == UserOf(s)
        refreshed == RefreshDue(ViewArgs)
        kwargs == needs_token_refresh(ViewArgs)
    IN  IF Len(ImpersonatingusersArguments) = Len(ImpersonatingusersParameters)
        THEN PipelineStart("impersonatingusers", u, targets)
        ELSE \* TypeError: missing 2 required positional arguments
             /\ last' = Result("oauth10areportimpersonators", s, "TypeError", NoCalls,
                               <<impersonated_channel, NONE, NONE>>,
                               <<IF refreshed THEN "refreshed" ELSE NONE, NONE, NONE>>)
             /\ UNCHANGED <<session, oauth_store, handshakes, oauth10a, oauth20pkce, users,
                            nonce, now, pl>>

----------------------------------------------------------------------------
(* update_existing_record (oauth10a.py): the archive-and-overwrite of a credential record *)
(* whose provider id the incoming data carries.  No route calls it.                     *)

\* the OAuth10a instance handed to the function
SetToDatabase(email, twitter_id, account_name, cred) ==
    [email |-> email, twitter_id |-> twitter_id, account_name |-> account_name,
     oauth_token |-> cred[1], oauth_token_secret |-> cred[2], oauth_verifier |-> "v1"]

\* OAuth10a.query.filter_by(twitter_id=set_to_database.twitter_id): the owners of such a row
Holders(tbl, set_to_database) ==
    {e \in DOMAIN tbl : tbl[e].twitter_id = set_to_database.twitter_id}

\* the entry appended to the history
PreviousInfo(existing_record) ==
    [twitter_id |-> existing_record.twitter_id, account_name |-> existing_record.account_name,
     oauth_token |-> existing_record.oauth_token,
     oauth_token_secret |-> existing_record.oauth_token_secret,
     oauth_verifier |-> existing_record.oauth_verifier,
     date_created |-> existing_record.date_created]

\* An overwrite that writes the incoming data under the incoming owner and leaves the row
\* of the previous owner where it is
update_existing_recordCopy(tbl, set_to_database) ==
    LET owner == CHOOSE e \in Holders(tbl, set_to_database) : TRUE
    IN  DictSet(tbl, set_to_database.email,
                [tbl[owner] EXCEPT !.account_name = set_to_database.account_name,
                                   !.oauth_token = set_to_database.oauth_token,
                                   !.oauth_token_secret = set_to_database.oauth_token_secret,
                                   !.oauth_verifier = set_to_database.oauth_verifier,
                                   !.last_token_refresh_date = now])

\* the table after the function's commit, when a row with the provider id exists: the row
\* is archived if its provider id differs from the incoming one, then overwritten, its
\* email (the primary key) included
update_existing_record(tbl, set_to_database) ==
    LET owner == CHOOSE e \in Holders(tbl, set_to_database) : TRUE
        existing_record == tbl[owner]
        archived == IF existing_record.twitter_id # set_to_database.twitter_id
                    THEN [existing_record EXCEPT !.previous_twitter_account_info =
                                                    Append(@, PreviousInfo(existing_record))]
                    ELSE existing_record
    IN  DictSet(DictDel(tbl, owner), set_to_database.email,
                [archived EXCEPT !.twitter_id = set_to_database.twitter_id,
                                 !.account_name = set_to_database.account_name,
                                 !.oauth_token = set_to_database.oauth_token,
                                 !.oauth_token_secret = set_to_database.oauth_token_secret,
                                 !.oauth_verifier = set_to_database.oauth_verifier,
                                 !.last_token_refresh_date = now])

\* one call of the function
UpdateExistingRecord(set_to_database) ==
    LET holders == Holders(oauth10a, set_to_database)
        outcome == IF holders = {} THEN "NoRecord"
                   ELSE IF set_to_database.email \in DOMAIN oauth10a \ holders
                   THEN \* the primary key is taken: db.session.commit() raises
                        "UncaughtIntegrityError"
                   ELSE "Updated"
    IN  /\ last' = Result("update_existing_record", "X", outcome, NoCalls,
                          <<set_to_database.email, set_to_database.twitter_id,
                            set_to_database.oauth_token>>,
                          <<set_to_database.account_name, set_to_database.oauth_token_secret,
                            set_to_database.oauth_verifier>>)
        /\ oauth10a' = IF outcome = "Updated"
                       THEN update_existing_record(oauth10a, set_to_database)
                       ELSE oauth10a
        /\ UNCHANGED <<session, oauth_store, handshakes, oauth20pkce, users, nonce, now, pl>>

----------------------------------------------------------------------------
(* Remote requests of the two flows that are not answered with a well-formed response. *)
(* No call site sets a timeout or stands inside a try block.                            *)

\* what a request gives instead of a well-formed response: an exception raised by the HTTP
\* client, no answer at all, or a 200 response whose body cannot be parsed
Faults == {"exception", "no_answer", "malformed"}

\* the request never returns ("Waiting"), or the exception leaves the view function
FaultOutcome(fault) == IF fault = "no_answer" THEN "Waiting" ELSE "UnhandledException"

\* client.request(REQUEST_TOKEN_URL, "POST", ...) raises or does not return
oauth10aindexFault(s, fault) ==
    /\ fault # "malformed"
    /\ last' = Result("oauth10aindex", s, FaultOutcome(fault),
                      <<Call("request_token", NONE, NONE, fault)>>, <<NONE, fault, NONE>>, NoData)
    /\ UNCHANGED <<session, oauth_store, handshakes, oauth10a, oauth20pkce, users, nonce, now, pl>>

\* the access-token request (at = 1) or the identity request (at = 2) of the callback fails:
\* a body without oauth_token makes oauth.Token(None, None) raise ValueError, a body that
\* is not JSON makes json.loads raise
oauth10acallbackFault(s, oauth_token, oauth_verifier, oauth_denied, at, fault) ==
    LET oauth_token_secret == StoredRequestSecret(s)
        failed == Call("access_token", oauth_token, oauth_token_secret, fault)
        access == Call("access_token", oauth_token, oauth_token_secret, "200")
    IN  /\ ~DenialSignalled(oauth_denied)
        /\ ~ParametersMissing(oauth_token, oauth_verifier)
        /\ ~SecretMissing(oauth_token_secret)
        /\ \E cred \in AccessCredentials :
              last' = Result("oauth10acallback", s, FaultOutcome(fault),
                             IF at = 1 THEN <<failed>>
                             ELSE <<access, Call("verify_credentials", cred[1], cred[2], fault)>>,
                             <<oauth_token, oauth_verifier, oauth_denied>>, NoData)
        /\ UNCHANGED <<session, oauth_store, handshakes, oauth10a, oauth20pkce, users, nonce, now, pl>>

\* response_data.get('screen_name', 'Unknown'), response_data.get('id_str', 'Unknown')
Unknown == "Unknown"

\* the identity request answers 200 with a JSON body that lacks screen_name and id_str:
\* the handler goes on with the defaults and writes them
oauth10acallbackIncomplete(s, oauth_token, oauth_verifier, oauth_denied) ==
    LET email == UserOf(s)
        oauth_token_secret == StoredRequestSecret(s)
    IN  /\ ~DenialSignalled(oauth_denied)
        /\ ~ParametersMissing(oauth_token, oauth_verifier)
        /\ ~SecretMissing(oauth_token_secret)
        /\ UNCHANGED <<oauth_store, handshakes, oauth20pkce, now, pl>>
        /\ \E cred \in AccessCredentials :
              LET access == Call("access_token", oauth_token, oauth_token_secret, "200")
                  verify == Call("verify_credentials", cred[1], cred[2], "incomplete")
                  o == UpsertOAuth10a(oauth10a, email, Unknown, Unknown, cred[1], cred[2],
                                      oauth_verifier)
                  u == UpsertUser(users, email, Unknown, Unknown)
                  outcome == IF ~OAuth10aConstraints(o) THEN "UncaughtIntegrityError"
                             ELSE IF ~CommitSucceeds(o, u, email) THEN "DatabaseError"
                             ELSE "Reconciled"
              IN  /\ last' = Result("oauth10acallback", s, outcome, <<access, verify>>,
                                    <<oauth_token, oauth_verifier, oauth_denied>>,
                                    <<Unknown, Unknown, NONE>>)
                  /\ IF outcome = "Reconciled"
                     THEN /\ nonce < MaxNonce
                          /\ oauth10a' = o
                          /\ users' = u
                          /\ nonce' = nonce + 1
                          /\ session' = [session EXCEPT ![s] =
                               DictSet(DictSet(@, "code_verifier", CodeVerifier(nonce + 1)),
                                       "state", State(nonce + 1))]
                     ELSE UNCHANGED <<session, oauth10a, users, nonce>>

\* the token request (at = 1) or the identity request (at = 2) of the PKCE callback fails:
\* response.json() raises on a body that is not JSON, token_data['access_token'] and
\* user_data['data']['username'] raise KeyError on a body without the field
oauth20pkcecallbackFault(s, error, code, state, at, fault) ==
    LET code_verifier == SessionGet(s, "code_verifier")
        failed == Call("token", code, code_verifier, fault)
        exchange == Call("token", code, code_verifier, "200")
    IN  /\ ~ErrorSignalled(error)
        /\ ~StateRejected(s, state)
        /\ ~VerifierMissing(code_verifier)
        /\ \E access_token \in PkceAccessTokens :
              last' = Result("oauth20pkcecallback", s, FaultOutcome(fault),
                             IF at = 1 THEN <<failed>>
                             ELSE <<exchange, Call("users_me", access_token, NONE, fault)>>,
                             <<error, code, state>>, NoData)
        /\ UNCHANGED <<session, oauth_store, handshakes, oauth10a, oauth20pkce, users, nonce, now, pl>>

----------------------------------------------------------------------------
\* Time passes between two requests; the clock is observed at the edge of the 30-day window
Tick ==
    /\ now < MaxTime * ThirtyDays
    /\ \E days \in {ThirtyDays, ThirtyDays + 1} : now' = now + days
    /\ UNCHANGED <<session, oauth_store, handshakes, oauth10a, oauth20pkce, users, nonce, last, pl>>

\* what the request-token endpoint answers: <<status, body>>
RequestTokenAnswers == {<<"200", "tokens">>, <<"200", "undecodable">>, <<"200", "other">>, <<"401", "other">>}

Begin10a ==
    \E s \in Sessions, answer \in RequestTokenAnswers : oauth10aindex(s, answer[1], answer[2])

Complete10a ==
    \E s \in Sessions : \E q \in CallbackQueries(s) : oauth10acallback(s, q[1], q[2], q[3])

BeginPkce == \E s \in Sessions : oauth20pkce_index(s)

CompletePkce ==
    \E s \in Sessions, q \in PkceCallbackQueries : oauth20pkcecallback(s, q[1], q[2], q[3])

\* The OAuth 1.0a flow
Next == Begin10a \/ Complete10a

Spec == Init /\ [][Next]_vars

\* /oauth10acallback called with a denial alone that names a key of the session
Deny10a ==
    \E s \in Sessions, oauth_denied \in {"code_verifier"} :
       oauth10acallback(s, NONE, NONE, oauth_denied)

\* The OAuth 2.0 PKCE flow, in sessions that also receive 1.0a denials
PkceNext == BeginPkce \/ CompletePkce \/ Deny10a

PkceSpec == Init /\ [][PkceNext]_vars

ReportRoute ==
    \E s \in Sessions, targets \in TargetLists : oauth10areportimpersonators(s, "a", targets)

\* The OAuth 1.0a flow and the POST route, with time passing between the requests
TimedNext == Begin10a \/ Complete10a \/ ReportRoute \/ Tick

TimedSpec == Init /\ [][TimedNext]_vars

\* The action pipeline, run for a user with or without a stored 1.0a credential
StoredCredential ==
    [twitter_id |-> "1", account_name |-> "carol", oauth_token |-> "at1",
     oauth_token_secret |-> "as1", oauth_verifier |-> "v1", date_created |-> 0,
     last_token_refresh_date |-> 0, previous_twitter_account_info |-> <<>>]

PipelineInit ==
    /\ session = [s \in Sessions |-> <<>>]
    /\ oauth_store = <<>>
    /\ handshakes = <<>>
    /\ oauth10a \in {<<>>, [u \in {"u1"} |-> StoredCredential]}
    /\ oauth20pkce = <<>>
    /\ users = [u \in Users |-> [twitter_id |-> IF u \in DOMAIN oauth10a THEN "1" ELSE NONE,
                                 account_name |-> IF u \in DOMAIN oauth10a THEN "carol"
                                                  ELSE IF u = "u1" THEN "alice" ELSE "bob"]]
    /\ nonce = 0
    /\ now = 0
    /\ last = Result("init", "X", "none", NoCalls, <<NONE, NONE, NONE>>, NoData)
    /\ pl = NoPipeline

Start ==
    \E variant \in {"impersonatingusers", "oauth10areportimpersonators"}, u \in Users,
       targets \in TargetLists : PipelineStart(variant, u, targets)

Mute == \E result \in PostResults : PipelineMute(result)

Block == \E result \in PostResults : PipelineBlock(result)

Report == \E result \in PostResults, body \in {"json", "text"} : PipelineReport(result, body)

PipelineNext == Start \/ Mute \/ Block \/ Report

PipelineSpec == PipelineInit /\ [][PipelineNext]_vars

\* a committed credential table: provider ids are unique
CredentialRows ==
    {[twitter_id |-> id, account_name |-> name, oauth_token |-> cred[1],
      oauth_token_secret |-> cred[2], oauth_verifier |-> "v1", date_created |-> 0,
      last_token_refresh_date |-> 0, previous_twitter_account_info |-> <<>>] :
        id \in TwitterIds, name \in ScreenNames, cred \in {<<"at1", "as1">>}}

ArchiveInit ==
    /\ session = [s \in Sessions |-> <<>>]
    /\ oauth_store = <<>>
    /\ handshakes = <<>>
    /\ oauth10a \in {tbl \in UNION {[owners -> CredentialRows] : owners \in SUBSET Users} :
                        OAuth10aConstraints(tbl)}
    /\ oauth20pkce = <<>>
    /\ users = [u \in Users |-> [twitter_id |-> IF u \in DOMAIN oauth10a
                                                 THEN oauth10a[u].twitter_id ELSE NONE,
                                 account_name |-> IF u = "u1" THEN "alice" ELSE "bob"]]
    /\ nonce = 0
    /\ now = 0
    /\ last = Result("init", "X", "none", NoCalls, <<NONE, NONE, NONE>>, NoData)
    /\ pl = NoPipeline

Archive ==
    \E email \in Users, twitter_id \in TwitterIds, account_name \in ScreenNames,
       cred \in AccessCredentials :
       UpdateExistingRecord(SetToDatabase(email, twitter_id, account_name, cred))

\* update_existing_record, called on committed tables
ArchiveSpec == ArchiveInit /\ [][Archive]_vars

\* the browser session in which both flows are run one after the other
OneSession == {"X"}

\* a 1.0a begin() that the provider answers properly
Begin10aAnswered == \E s \in OneSession : oauth10aindex(s, "200", "tokens")

\* the provider's redirect back after the user authorized a request token of the session
Authorize10a ==
    \E s \in OneSession :
       \E k \in {j \in 1..Len(handshakes) : handshakes[j].sess = s} :
          oauth10acallback(s, handshakes[k].token, "v1", NONE)

BeginPkceOne == \E s \in OneSession : oauth20pkce_index(s)

\* the provider's redirect back to /oauth20pkcecallback with a code and a state drawn so far
ReturnPkce ==
    \E s \in OneSession, n \in 1..nonce : oauth20pkcecallback(s, NONE, "c1", State(n))

\* Both flows run in one session; the requests are well-formed
MixedNext == Begin10aAnswered \/ Authorize10a \/ BeginPkceOne \/ ReturnPkce

MixedSpec == Init /\ [][MixedNext]_vars

Begin10aFault == \E s \in Sessions, fault \in Faults : oauth10aindexFault(s, fault)

Complete10aFault ==
    \E s \in Sessions, at \in {1, 2}, fault \in Faults :
       \E q \in CallbackQueries(s) : oauth10acallbackFault(s, q[1], q[2], q[3], at, fault)

Complete10aIncomplete ==
    \E s \in Sessions : \E q \in CallbackQueries(s) : oauth10acallbackIncomplete(s, q[1], q[2], q[3])

CompletePkceFault ==
    \E s \in Sessions, at \in {1, 2}, fault \in Faults, q \in PkceCallbackQueries :
       oauth20pkcecallbackFault(s, q[1], q[2], q[3], at, fault)

\* Both flows, with a remote API that fails to answer properly
FaultNext ==
    \/ Begin10a \/ Begin10aFault \/ Complete10aFault \/ Complete10aIncomplete
    \/ BeginPkce \/ CompletePkceFault

FaultSpec == Init /\ [][FaultNext]_vars

----------------------------------------------------------------------------
(* Claims *)

IsPkceCallback(r) == r.op = "oauth20pkcecallback"
Is10aCallback(r) == r.op = "oauth10acallback"

\* every remote call of the handler call r was answered with 200
AllCalls200(r) == \A n \in 1..Len(r.calls) : r.calls[n].status = "200"

\* the handler call r issued both the access-token and the identity request, both answered 200
ReachedReconciliation(r) == Is10aCallback(r) /\ Len(r.calls) = 2 /\ AllCalls200(r)

HistoryLen(tbl, email) == Len(tbl[email].previous_twitter_account_info)

\* C1 (as stated): every PKCE callback whose state parameter differs from the state stored
\* in the session (a session without a state included) fails with StateMismatch, issues no
\* remote request and writes nothing to the credential store.
C1_Original ==
    [][ (IsPkceCallback(last') /\ last'.args[3] # SessionGet(last'.sess, "state"))
        => (/\ last'.outcome = "StateMismatch"
            /\ last'.calls = NoCalls
            /\ oauth20pkce' = oauth20pkce) ]_vars

\* C1 (amended): every PKCE callback without an error parameter whose state parameter
\* differs from the state stored in the session (a session without a state included) fails
\* with StateMismatch, issues no remote request and writes nothing to the credential store.
C1_StateMismatch ==
    [][ (/\ IsPkceCallback(last')
         /\ ~Truthy(last'.args[1])
         /\ last'.args[3] # SessionGet(last'.sess, "state"))
        => (/\ last'.outcome = "StateMismatch"
            /\ last'.calls = NoCalls
            /\ oauth20pkce' = oauth20pkce) ]_vars

\* a callback carrying the state of an earlier begin() was rejected in a session that by now
\* holds the state of a later begin()
C1_Witness ==
    /\ IsPkceCallback(last)
    /\ last.outcome = "StateMismatch"
    /\ last.args[3] = State(1)
    /\ SessionGet(last.sess, "state") = State(2)

\* C2: a PKCE callback is rejected with StateMismatch whenever the state is absent from the
\* callback, from the session or from both, and the token exchange is reached only when the
\* session holds a state and the callback carries exactly that value.
C2_AbsentStateRejected ==
    /\ (/\ IsPkceCallback(last)
        /\ ~Truthy(last.args[1])
        /\ (last.args[3] = NONE \/ "state" \notin DOMAIN session[last.sess]))
       => last.outcome = "StateMismatch"
    /\ (IsPkceCallback(last) /\ last.calls # NoCalls)
       => ("state" \in DOMAIN session[last.sess] /\ last.args[3] = session[last.sess]["state"])

\* C3: the access-token exchange of a 1.0a callback in session X is signed with a
\* request-token secret that the provider issued to a begin() of session X.
C3_SessionIsolation ==
    (Is10aCallback(last) /\ last.calls # NoCalls)
    => \E k \in 1..Len(handshakes) :
          /\ handshakes[k].sess = last.sess
          /\ handshakes[k].secret = last.calls[1].secret

\* X began, then Y began, then X's callback reached the access-token exchange
C3_Witness ==
    /\ Is10aCallback(last)
    /\ last.sess = "X"
    /\ last.calls # NoCalls
    /\ Len(handshakes) = 2
    /\ handshakes[1].sess = "X"
    /\ handshakes[2].sess = "Y"

\* C4: after two begin() calls of the same user, the callback of the overwritten handshake
\* fails with MissingSessionSecret, issues no access-token exchange and writes nothing.
C4_LoserFailsCleanly ==
    [][ (/\ Is10aCallback(last')
         /\ ~Truthy(last'.args[3])
         /\ Truthy(last'.args[2])
         /\ \E j, k \in 1..Len(handshakes) :
               /\ j < k
               /\ handshakes[j].sess = last'.sess
               /\ handshakes[k].sess = last'.sess
               /\ handshakes[j].token = last'.args[1])
        => (/\ last'.outcome = "MissingSessionSecret"
            /\ last'.calls = NoCalls
            /\ oauth10a' = oauth10a) ]_vars

\* C5: reconciling a user whose credential has provider id A with data whose provider id is
\* B # A appends exactly one history entry, which holds the prior A-state, and the active
\* record then holds B.
C5_ArchiveLaw ==
    [][ LET email == UserOf(last'.sess)
        IN  (/\ ReachedReconciliation(last')
             /\ email \in DOMAIN oauth10a
             /\ last'.data[1] # oauth10a[email].twitter_id)
            => (/\ oauth10a'[email].twitter_id = last'.data[1]
                /\ HistoryLen(oauth10a', email) = HistoryLen(oauth10a, email) + 1
                /\ LET entry == oauth10a'[email].previous_twitter_account_info[
                                    HistoryLen(oauth10a', email)]
                   IN  /\ entry.twitter_id = oauth10a[email].twitter_id
                       /\ entry.account_name = oauth10a[email].account_name
                       /\ entry.oauth_token = oauth10a[email].oauth_token
                       /\ entry.oauth_token_secret = oauth10a[email].oauth_token_secret
                       /\ entry.oauth_verifier = oauth10a[email].oauth_verifier
                       /\ entry.date_created = oauth10a[email].date_created) ]_vars

\* C6: after a 1.0a callback with token, verifier and session secret present and both
\* provider calls answered 200, the owning user has exactly one credential record, and its
\* history is as long as before unless the provider id differs from the prior record's.
C6_OneRecordAfterComplete ==
    [][ LET email == UserOf(last'.sess)
        IN  ReachedReconciliation(last')
            => (/\ email \in DOMAIN oauth10a'
                /\ (email \in DOMAIN oauth10a /\ last'.data[1] = oauth10a[email].twitter_id)
                   => HistoryLen(oauth10a', email) = HistoryLen(oauth10a, email)) ]_vars

\* C7: reconciling the same (token, token_secret) for the same user twice in succession
\* leaves exactly one record, the second call updating the record in place, and neither
\* call appends a history entry.
C7_Idempotence ==
    [][ LET email == UserOf(last'.sess)
        IN  (/\ ReachedReconciliation(last)
             /\ ReachedReconciliation(last')
             /\ last'.sess = last.sess
             /\ last'.calls[2].key = last.calls[2].key
             /\ last'.calls[2].secret = last.calls[2].secret
             /\ last'.data = last.data)
            => (/\ email \in DOMAIN oauth10a
                /\ email \in DOMAIN oauth10a'
                /\ HistoryLen(oauth10a', email) = HistoryLen(oauth10a, email)) ]_vars

\* C8: at most one credential per owning user, no two credentials with the same provider
\* id, no two credentials with the same (token, token_secret) pair.
C8_StoreInvariant ==
    \A a, b \in DOMAIN oauth10a : a # b =>
        /\ oauth10a[a].twitter_id # oauth10a[b].twitter_id
        /\ <<oauth10a[a].oauth_token, oauth10a[a].oauth_token_secret>>
              # <<oauth10a[b].oauth_token, oauth10a[b].oauth_token_secret>>

\* C9: a pipeline run never raises; a failed call is recorded and the calls after it are
\* still made, so a finished run has called mute and report for every target.
C9_NeverAborts ==
    /\ pl.pc # "raised"
    /\ pl.pc = "done" =>
          \A i \in 1..Len(pl.targets) :
             \A action \in {"mute", "report"} :
                \E n \in 1..Len(pl.calls) : pl.calls[n].i = i /\ pl.calls[n].action = action

\* C10: for every target exactly three remote calls are issued, mute then block then
\* report, and all calls of a target precede all calls of the next target.
C10_ThreeCallsInOrder ==
    pl.pc = "done" =>
       /\ Len(pl.calls) = 3 * Len(pl.targets)
       /\ \A i \in 1..Len(pl.targets) :
             /\ pl.calls[3 * i - 2].i = i /\ pl.calls[3 * i - 2].action = "mute"
             /\ pl.calls[3 * i - 1].i = i /\ pl.calls[3 * i - 1].action = "block"
             /\ pl.calls[3 * i].i = i /\ pl.calls[3 * i].action = "report"

\* an item of the output that reports a remote call (the parsed report body is not one)
IsOutcomeEntry(e) == e.action # "json_response"

\* C11: whatever the calls return, the outcome log of a run has exactly 3*N entries, one per
\* (target, action) with action mute, block, report, in target-list order, and an entry is
\* failed exactly when its own call returned non-2xx or raised.
C11_OutcomeLog ==
    pl.pc \in {"done", "raised"} =>
       LET log == SelectSeq(pl.response_list, IsOutcomeEntry)
       IN  /\ Len(log) = 3 * Len(pl.targets)
           /\ Len(pl.calls) = Len(log)
           /\ \A i \in 1..Len(pl.targets) :
                 /\ log[3 * i - 2].i = i /\ log[3 * i - 2].action = "mute"
                 /\ log[3 * i - 1].i = i /\ log[3 * i - 1].action = "block"
                 /\ log[3 * i].i = i /\ log[3 * i].action = "report"
           /\ \A n \in 1..Len(log) : log[n].ok = (pl.calls[n].result = "200")

\* C12: a PKCE callback that carries an error value fails with ProviderDenied, issues no
\* remote request and writes nothing to the credential store, whatever its code and state
\* and whatever the session holds.
C12_ProviderDenied ==
    [][ (IsPkceCallback(last') /\ Truthy(last'.args[1]))
        => (/\ last'.outcome = "ProviderDenied"
            /\ last'.calls = NoCalls
            /\ oauth20pkce' = oauth20pkce) ]_vars

\* a callback with an error, a code and the very state and verifier the session holds
C12_Witness ==
    /\ IsPkceCallback(last)
    /\ last.outcome = "ProviderDenied"
    /\ last.args = <<"server_error", "c1", State(1)>>
    /\ SessionGet(last.sess, "state") = State(1)
    /\ SessionGet(last.sess, "code_verifier") = CodeVerifier(1)

\* C13: a PKCE callback whose state equals the session's state, in a session without a code
\* verifier, fails with MissingVerifier, issues no token exchange and writes nothing.
C13_MissingVerifier ==
    [][ (/\ IsPkceCallback(last')
         /\ ~Truthy(last'.args[1])
         /\ last'.args[3] = SessionGet(last'.sess, "state")
         /\ ~Truthy(SessionGet(last'.sess, "code_verifier")))
        => (/\ last'.outcome = "MissingVerifier"
            /\ last'.calls = NoCalls
            /\ oauth20pkce' = oauth20pkce) ]_vars

\* the callback carried the state the session holds, and the session had lost its verifier
C13_Witness ==
    /\ IsPkceCallback(last)
    /\ last.outcome = "MissingVerifier"
    /\ last.args[3] = State(1)
    /\ SessionGet(last.sess, "state") = State(1)

\* C14: a PKCE callback whose token exchange is answered with a status other than 200 fails
\* with TokenExchangeError, issues no identity request and writes nothing.
C14_TokenExchangeError ==
    [][ (/\ IsPkceCallback(last')
         /\ last'.calls # NoCalls
         /\ last'.calls[1].status # "200")
        => (/\ last'.outcome = "TokenExchangeError"
            /\ Len(last'.calls) = 1
            /\ last'.calls[1].kind = "token"
            /\ oauth20pkce' = oauth20pkce) ]_vars

\* the exchange failed for a user who already has a stored credential
C14_Witness ==
    /\ IsPkceCallback(last)
    /\ last.outcome = "TokenExchangeError"
    /\ UserOf(last.sess) \in DOMAIN oauth20pkce

\* C15: a PKCE callback whose identity request is answered with a status other than 200
\* fails with IdentityFetchError and writes nothing; the credential store changes only in a
\* callback whose token exchange and identity request, in that order, were answered 200.
C15_IdentityFetchError ==
    [][ /\ (/\ IsPkceCallback(last')
            /\ Len(last'.calls) = 2
            /\ last'.calls[2].status # "200")
           => (/\ last'.outcome = "IdentityFetchError"
               /\ oauth20pkce' = oauth20pkce)
        /\ (oauth20pkce' # oauth20pkce)
           => (/\ IsPkceCallback(last')
               /\ Len(last'.calls) = 2
               /\ last'.calls[1].kind = "token" /\ last'.calls[1].status = "200"
               /\ last'.calls[2].kind = "users_me" /\ last'.calls[2].status = "200") ]_vars

\* the identity request failed, after a successful exchange, for a user who already has a
\* stored credential
C15_Witness ==
    /\ IsPkceCallback(last)
    /\ last.outcome = "IdentityFetchError"
    /\ last.calls[1].status = "200"
    /\ UserOf(last.sess) \in DOMAIN oauth20pkce

\* C16: a PKCE reconciliation whose provider id belongs to the credential of another user
\* fails with IntegrityError and leaves the credential store as it was, whether or not the
\* calling user already has a credential.
C16_PkceIntegrityError ==
    [][ LET email == UserOf(last'.sess)
        IN  (/\ IsPkceCallback(last')
             /\ Len(last'.calls) = 2
             /\ AllCalls200(last')
             /\ \E other \in DOMAIN oauth20pkce \ {email} :
                   oauth20pkce[other].twitter_id = last'.data[1])
            => (/\ last'.outcome = "IntegrityError"
                /\ oauth20pkce' = oauth20pkce) ]_vars

\* C17: a 1.0a callback that carries a denied value fails with Denied, issues no
\* access-token or identity request and writes nothing to the tables, whatever its other
\* parameters and whatever the session holds.
C17_Denied ==
    [][ (Is10aCallback(last') /\ Truthy(last'.args[3]))
        => (/\ last'.outcome = "Denied"
            /\ last'.calls = NoCalls
            /\ oauth10a' = oauth10a
            /\ users' = users) ]_vars

\* a denial that came with a token and a verifier, in a session whose begin() had stored a
\* request-token secret
C17_Witness ==
    /\ Is10aCallback(last)
    /\ last.outcome = "Denied"
    /\ last.args[1] = RequestToken(1)
    /\ Truthy(last.args[2])
    /\ \E k \in 1..Len(handshakes) : handshakes[k].sess = last.sess

\* C18: a 1.0a callback without denial whose oauth_token or oauth_verifier is absent (or
\* empty) fails with MissingParameters, issues no remote request and writes nothing.
C18_MissingParameters ==
    [][ (/\ Is10aCallback(last')
         /\ ~Truthy(last'.args[3])
         /\ (~Truthy(last'.args[1]) \/ ~Truthy(last'.args[2])))
        => (/\ last'.outcome = "MissingParameters"
            /\ last'.calls = NoCalls
            /\ oauth10a' = oauth10a
            /\ users' = users) ]_vars

\* the token of the session's own handshake came without a verifier, while the session held
\* the request-token secret
C18_Witness ==
    /\ Is10aCallback(last)
    /\ last.outcome = "MissingParameters"
    /\ last.args[1] = RequestToken(1)
    /\ last.args[2] = NONE
    /\ Truthy(SessionGet(last.sess, "oauth_token_secret"))

\* C19: a 1.0a callback with token and verifier, in a session without a request-token
\* secret, fails with MissingSessionSecret, issues no remote request and writes nothing; a
\* callback that does issue a request signs it with the secret the session holds.
C19_MissingSessionSecret ==
    [][ (/\ Is10aCallback(last')
         /\ ~Truthy(last'.args[3])
         /\ Truthy(last'.args[1])
         /\ Truthy(last'.args[2]))
        => (/\ ~Truthy(SessionGet(last'.sess, "oauth_token_secret"))
               => (/\ last'.outcome = "MissingSessionSecret"
                   /\ last'.calls = NoCalls
                   /\ oauth10a' = oauth10a
                   /\ users' = users)
            /\ last'.calls # NoCalls
               => last'.calls[1].secret = SessionGet(last'.sess, "oauth_token_secret")) ]_vars

\* the callback carried a token whose hashed secret the process-wide map holds, in a session
\* that holds no secret
C19_Witness ==
    /\ Is10aCallback(last)
    /\ last.outcome = "MissingSessionSecret"
    /\ last.args[1] \in DOMAIN oauth_store
    /\ "oauth_token_secret" \notin DOMAIN session[last.sess]

\* C20: a 1.0a callback fails with ProviderError and writes nothing when the access-token
\* exchange is answered non-200 (and then issues no identity request) or when the identity
\* request is answered non-200; the tables change only in a callback whose exchange and
\* identity request, in that order, were both answered 200.
C20_ProviderError ==
    [][ /\ (Is10aCallback(last') /\ last'.calls # NoCalls /\ ~AllCalls200(last'))
           => (/\ last'.outcome = "ProviderError"
               /\ last'.calls[1].status # "200" => Len(last'.calls) = 1
               /\ oauth10a' = oauth10a
               /\ users' = users)
        /\ (oauth10a' # oauth10a \/ users' # users)
           => (/\ Is10aCallback(last')
               /\ Len(last'.calls) = 2
               /\ last'.calls[1].kind = "access_token" /\ last'.calls[1].status = "200"
               /\ last'.calls[2].kind = "verify_credentials" /\ last'.calls[2].status = "200") ]_vars

\* the identity request failed, after a successful exchange, for a user who already has a
\* stored credential
C20_Witness ==
    /\ Is10aCallback(last)
    /\ last.outcome = "ProviderError"
    /\ Len(last.calls) = 2
    /\ UserOf(last.sess) \in DOMAIN oauth10a

IsBegin10a(r) == r.op = "oauth10aindex"

\* C21: a 1.0a begin() whose request-token call is answered with a status other than 200
\* fails with ProviderError carrying that status and leaves the session and the process-wide
\* token map as they were.
C21_BeginProviderError ==
    [][ (IsBegin10a(last') /\ last'.calls[1].status # "200")
        => (/\ last'.outcome = "ProviderError"
            /\ last'.data[1] = last'.calls[1].status
            /\ session' = session
            /\ oauth_store' = oauth_store) ]_vars

\* the request-token call failed in a session that holds the secret of an earlier handshake
C21_Witness ==
    /\ IsBegin10a(last)
    /\ last.outcome = "ProviderError"
    /\ last.data[1] = "401"
    /\ Truthy(SessionGet(last.sess, "oauth_token_secret"))
    /\ oauth_store # <<>>

\* C22: a 1.0a begin() whose request-token call is answered 200 with a body that lacks the
\* token fields, or whose fields cannot be decoded, fails with DecodeError and stores nothing
\* in the session or in the process-wide token map.
C22_BeginDecodeError ==
    [][ (/\ IsBegin10a(last')
         /\ last'.calls[1].status = "200"
         /\ last'.args[2] \in {"other", "undecodable"})
        => (/\ last'.outcome = "DecodeError"
            /\ session' = session
            /\ oauth_store' = oauth_store) ]_vars

\* C23: a 1.0a reconciliation that violates a constraint other than the uniqueness of the
\* provider id and of the token pair (here: the uniqueness of the user's account name) ends
\* as a database error, and every record of the credential table and of the user table is as
\* it was before the call.
C23_ReconciliationError ==
    [][ LET email == UserOf(last'.sess)
        IN  (/\ ReachedReconciliation(last')
             /\ \E other \in DOMAIN users \ {email} :
                   users[other].account_name = last'.data[2]
             /\ \A other \in DOMAIN users \ {email} :
                   users[other].twitter_id # last'.data[1]
             /\ \A other \in DOMAIN oauth10a \ {email} :
                   oauth10a[other].twitter_id # last'.data[1])
            => (/\ last'.outcome = "DatabaseError"
                /\ oauth10a' = oauth10a
                /\ users' = users) ]_vars

\* the call was rolled back for a user who holds a credential with another provider id and
\* another token pair than the ones the call brought
C23_Witness ==
    LET email == UserOf(last.sess)
    IN  /\ Is10aCallback(last)
        /\ last.outcome = "DatabaseError"
        /\ email \in DOMAIN oauth10a
        /\ oauth10a[email].twitter_id # last.data[1]
        /\ oauth10a[email].oauth_token # last.calls[2].key

\* C24: once a 1.0a or PKCE callback has returned (success, failure or denial), the session
\* no longer holds the transient flow state of the flow: the request-token secret, the code
\* verifier and the state.
C24_TransientStateErased ==
    [][ /\ Is10aCallback(last') => "oauth_token_secret" \notin DOMAIN session'[last'.sess]
        /\ IsPkceCallback(last') => /\ "code_verifier" \notin DOMAIN session'[last'.sess]
                                    /\ "state" \notin DOMAIN session'[last'.sess] ]_vars

\* the values that are secrets: request-token secrets, access-token secrets, code verifiers,
\* PKCE access and refresh tokens, the client secret
Secrets ==
    {RequestSecret(k) : k \in 1..MaxHandshakes}
    \cup {cred[2] : cred \in AccessCredentials}
    \cup {CodeVerifier(n) : n \in 1..MaxNonce}
    \cup PkceAccessTokens
    \cup (PkceRefreshTokens \ {NONE})
    \cup {ClientSecret}

\* C25: no handler call writes a secret to the log or hands one to the presentation layer.
C25_NoSecretInLog ==
    /\ Logged(last) \cap Secrets = {}
    /\ Rendered(last) \cap Secrets = {}

\* the PKCE callback r carried the state the session holds, in a session that holds a
\* verifier, and the token exchange and the identity request were both answered 200
IsPkceRoundTrip(r) ==
    /\ IsPkceCallback(r)
    /\ ~Truthy(r.args[1])
    /\ "state" \in DOMAIN session[r.sess]
    /\ r.args[3] = session[r.sess]["state"]
    /\ Truthy(SessionGet(r.sess, "code_verifier"))
    /\ Len(r.calls) = 2
    /\ AllCalls200(r)

\* C26 (as stated): a PKCE callback with the session's state, a stored verifier and both
\* provider calls answered 200 ends as RECONCILED with one stored credential for the owning
\* user, whose access_token is the one the provider issued in that exchange.
C26_Original ==
    [][ LET email == UserOf(last'.sess)
        IN  IsPkceRoundTrip(last')
            => (/\ last'.outcome = "Reconciled"
                /\ email \in DOMAIN oauth20pkce'
                /\ oauth20pkce'[email].access_token = last'.calls[2].key) ]_vars

\* C26 (amended): the same, for callbacks whose provider id does not belong to the stored
\* credential of another user.
C26_RoundTrip ==
    [][ LET email == UserOf(last'.sess)
        IN  (/\ IsPkceRoundTrip(last')
             /\ \A other \in DOMAIN oauth20pkce \ {email} :
                   oauth20pkce[other].twitter_id # last'.data[1])
            => (/\ last'.outcome = "Reconciled"
                /\ email \in DOMAIN oauth20pkce'
                /\ oauth20pkce'[email].access_token = last'.calls[2].key) ]_vars

\* a round trip stored the second of the provider's tokens while another user holds a
\* credential too
C26_Witness ==
    LET email == UserOf(last.sess)
    IN  /\ IsPkceCallback(last)
        /\ last.outcome = "Reconciled"
        /\ last.calls[2].key = "pa2"
        /\ DOMAIN oauth20pkce = Users
        /\ oauth20pkce[email].access_token = "pa2"

IsBeginPkce(r) == r.op = "oauth20pkce_index"

\* the unreserved characters of a URL: letters, digits, '-', '.', '_', '~'
Unreserved ==
    {"A", "B", "C", "D", "E", "F", "G", "H", "I", "J", "K", "L", "M",
     "N", "O", "P", "Q", "R", "S", "T", "U", "V", "W", "X", "Y", "Z"}
    \cup {"a", "b", "c", "d", "e", "f", "g", "h", "i", "j", "k", "l", "m",
          "n", "o", "p", "q", "r", "s", "t", "u", "v", "w", "x", "y", "z"}
    \cup {"0", "1", "2", "3", "4", "5", "6", "7", "8", "9"}
    \cup {"-", ".", "_", "~"}

C28_RefreshDateSet ==
    [][ /\ Is10aCallback(last')
        /\ last'.outcome = "Reconciled"
        /\ UserOf(last'.sess) \in DOMAIN oauth10a
        /\ oauth10a[UserOf(last'.sess)].twitter_id = last'.data[1]
        => oauth10a'[UserOf(last'.sess)].last_token_refresh_date = now ]_vars

IsReportRoute(r) == r.op = "oauth10areportimpersonators"

\* C30: a POST to the pipeline's route for a user with a stored credential applies
\* refresh_oauth_token exactly when the credential was last refreshed more than 30 days
\* ago, then runs the pipeline body once, and leaves the credential's fields unchanged.
C30_RefreshThenRun ==
    [][ IsReportRoute(last') /\ UserOf(last'.sess) \in DOMAIN oauth10a
        => /\ (last'.data[1] = "refreshed")
                <=> (oauth10a[UserOf(last'.sess)].last_token_refresh_date < now - 30)
           /\ pl # pl' /\ pl'.pc = "mute" /\ pl'.user = UserOf(last'.sess)
           /\ oauth10a' = oauth10a ]_vars

\* C29: a 1.0a callback either commits every field it writes, in the credential record
\* (provider id, account name, token, token secret, verifier) and in the owning user's record
\* (provider id, account name), or leaves both tables exactly as they were.
C29_Atomic ==
    [][ Is10aCallback(last')
        => LET email == UserOf(last'.sess)
           IN  \/ /\ last'.outcome = "Reconciled"
                  /\ email \in DOMAIN oauth10a'
                  /\ oauth10a'[email].twitter_id = last'.data[1]
                  /\ oauth10a'[email].account_name = last'.data[2]
                  /\ oauth10a'[email].oauth_token = last'.calls[2].key
                  /\ oauth10a'[email].oauth_token_secret = last'.calls[2].secret
                  /\ oauth10a'[email].oauth_verifier = last'.args[2]
                  /\ users'[email].twitter_id = last'.data[1]
                  /\ users'[email].account_name = last'.data[2]
                  /\ \A other \in DOMAIN users \ {email} : users'[other] = users[other]
                  /\ \A other \in DOMAIN oauth10a \ {email} : oauth10a'[other] = oauth10a[other]
               \/ /\ last'.outcome # "Reconciled"
                  /\ oauth10a' = oauth10a
                  /\ users' = users ]_vars

\* both users hold a committed credential, and the latest call rewrote the caller's
C29_Witness ==
    /\ Is10aCallback(last)
    /\ last.outcome = "Reconciled"
    /\ DOMAIN oauth10a = Users
    /\ nonce = 2
    /\ users[UserOf(last.sess)].account_name = last.data[2]

\* C31: within one pipeline run no remote call is issued twice for the same target (its
\* position in the list) and the same action, whatever the first call's result was.
C31_NoRetry ==
    \A m, n \in 1..Len(pl.calls) :
       (pl.calls[m].i = pl.calls[n].i /\ pl.calls[m].action = pl.calls[n].action) => m = n

\* a run went past a failed mute call and has issued the next call of the same target
C31_Witness ==
    \E m \in 1..Len(pl.calls) :
       /\ pl.calls[m].action = "mute"
       /\ pl.calls[m].result # "200"
       /\ m < Len(pl.calls)
       /\ pl.calls[m + 1].i = pl.calls[m].i

\* the handler call r issued a remote request that was answered with `status'
HasCall(r, status) == \E n \in 1..Len(r.calls) : r.calls[n].status = status

\* C32 (flow controllers): a begin() or complete() whose remote request is never answered
\* ends, after a timeout, in ProviderError, TokenExchangeError or IdentityFetchError.
C32_TimeoutBounded ==
    [][ HasCall(last', "no_answer")
        => last'.outcome \in {"ProviderError", "TokenExchangeError", "IdentityFetchError"} ]_vars

\* a remote request of r raised, or was answered 200 with a body that cannot be read
FailedRemotely(r) ==
    \/ HasCall(r, "exception")
    \/ HasCall(r, "malformed")
    \/ HasCall(r, "incomplete")
    \/ r.op = "oauth10aindex" /\ HasCall(r, "200") /\ r.args[2] = "other"

\* C33: a 1.0a begin, 1.0a callback or PKCE callback whose remote request raised or brought a
\* malformed body ends in one of the declared error kinds and writes no credential record.
C33_FailuresConverted ==
    [][ FailedRemotely(last')
        => /\ last'.outcome \in {"ProviderError", "DecodeError", "TokenExchangeError",
                                  "IdentityFetchError"}
           /\ oauth10a' = oauth10a
           /\ oauth20pkce' = oauth20pkce ]_vars

\* C34: when a callback has got past the session checks (it issued a remote request), a
\* second callback of the same flow in the same session with the same parameters, with no
\* begin() in between, is rejected with StateMismatch, MissingVerifier or
\* MissingSessionSecret, issues no remote request and writes no credential record.
C34_SingleUse ==
    [][ (/\ IsPkceCallback(last) \/ Is10aCallback(last)
         /\ last.calls # NoCalls
         /\ last'.op = last.op
         /\ last'.sess = last.sess
         /\ last'.args = last.args)
        => (/\ last'.outcome \in {"StateMismatch", "MissingVerifier", "MissingSessionSecret"}
            /\ last'.calls = NoCalls
            /\ oauth10a' = oauth10a
            /\ oauth20pkce' = oauth20pkce) ]_vars

\* C35: every successful 1.0a callback stores a newly drawn code verifier and state in the
\* session; a PKCE callback that follows it in that session and carries a state drawn
\* earlier (such as the one a PKCE begin() of the session had stored) is rejected with
\* StateMismatch.
C35_CallbackReplacesPkceState ==
    [][ /\ (Is10aCallback(last') /\ last'.outcome = "Reconciled")
           => /\ nonce' = nonce + 1
              /\ {"code_verifier", "state"} \subseteq DOMAIN session'[last'.sess]
              /\ session'[last'.sess]["code_verifier"] = CodeVerifier(nonce')
              /\ session'[last'.sess]["state"] = State(nonce')
              /\ \A x \in Sessions :
                    /\ SessionGet(x, "state") # State(nonce')
                    /\ SessionGet(x, "code_verifier") # CodeVerifier(nonce')
        /\ (/\ Is10aCallback(last) /\ last.outcome = "Reconciled"
            /\ IsPkceCallback(last') /\ last'.sess = last.sess
            /\ ~Truthy(last'.args[1])
            /\ last'.args[3] \in {State(n) : n \in 1..(nonce - 1)})
           => last'.outcome = "StateMismatch" ]_vars

\* a PKCE callback carrying the first state drawn was rejected in a session that holds the
\* second one and whose user holds a 1.0a credential with the first request token's verifier
C35_Witness ==
    /\ IsPkceCallback(last)
    /\ last.outcome = "StateMismatch"
    /\ last.args[3] = State(1)
    /\ SessionGet(last.sess, "state") = State(2)
    /\ UserOf(last.sess) \in DOMAIN oauth10a
    /\ Len(handshakes) = 1

\* C36: a PKCE callback that follows a begin() of its session which was not the first draw
\* (the session's earlier state and verifier were overwritten) is rejected with
\* StateMismatch when it carries a state drawn earlier, and when it carries the state of
\* that last begin() it passes the state check and the code is exchanged with the verifier
\* of that last begin().
C36_SecondBeginWins ==
    [][ (/\ IsBeginPkce(last) /\ nonce > 1
         /\ IsPkceCallback(last') /\ last'.sess = last.sess
         /\ ~Truthy(last'.args[1]))
        => /\ last'.args[3] \in {State(n) : n \in 1..(nonce - 1)}
              => last'.outcome = "StateMismatch" /\ last'.calls = NoCalls
           /\ last'.args[3] = State(nonce)
              => /\ last'.outcome # "StateMismatch"
                 /\ last'.calls # NoCalls
                 /\ last'.calls[1].kind = "token"
                 /\ last'.calls[1].secret = CodeVerifier(nonce) ]_vars

\* after two begin() calls in one session, a callback carrying the second state was
\* exchanged with the second verifier
C36_Witness ==
    /\ IsPkceCallback(last)
    /\ nonce = 2
    /\ last.args[3] = State(2)
    /\ last.calls # NoCalls
    /\ last.calls[1].secret = CodeVerifier(2)
    /\ \A x \in Sessions \ {last.sess} : session[x] = <<>>

\* C37: the process-wide token map only grows: a successful begin() sets the entry keyed by
\* the issued request token and leaves the others, every other step leaves the map as it
\* is, and a callback gets past the session checks exactly when it is no denial, carries a
\* token and a verifier and its session holds a secret, whatever the map holds.
C37_StoreWriteOnly ==
    [][ /\ DOMAIN oauth_store \subseteq DOMAIN oauth_store'
        /\ (IsBegin10a(last') /\ last'.outcome = "RequestTokenObtained")
           => /\ last'.args[1] \in DOMAIN oauth_store'
              /\ \A key \in DOMAIN oauth_store \ {last'.args[1]} :
                    oauth_store'[key] = oauth_store[key]
        /\ ~(IsBegin10a(last') /\ last'.outcome = "RequestTokenObtained")
           => oauth_store' = oauth_store
        /\ Is10aCallback(last')
           => (last'.calls # NoCalls
               <=> /\ ~Truthy(last'.args[3])
                   /\ Truthy(last'.args[1])
                   /\ Truthy(last'.args[2])
                   /\ Truthy(SessionGet(last'.sess, "oauth_token_secret"))) ]_vars

\* a callback got past the session checks with a request token that was issued to the
\* other session only, while the map holds two entries
C37_Witness ==
    /\ Is10aCallback(last)
    /\ last.calls # NoCalls
    /\ \E k \in 1..Len(handshakes) : handshakes[k].token = last.args[1]
    /\ \A k \in 1..Len(handshakes) :
          handshakes[k].token = last.args[1] => handshakes[k].sess # last.sess
    /\ Cardinality(DOMAIN oauth_store) = 2

IsArchive(r) == r.op = "update_existing_record"

\* C38: when update_existing_record runs for incoming data of a user who has no record and
\* whose provider id is held by another user's record, that record is re-keyed to the
\* incoming user and carries the incoming data; the previous owner is left without a
\* record, the number of records is unchanged and the history is as long as before.
C38_ReKey ==
    [][ LET email == last'.args[1]
        IN  (/\ IsArchive(last')
             /\ email \notin DOMAIN oauth10a
             /\ \E other \in DOMAIN oauth10a : oauth10a[other].twitter_id = last'.args[2])
            => \E other \in DOMAIN oauth10a :
                  /\ oauth10a[other].twitter_id = last'.args[2]
                  /\ email \in DOMAIN oauth10a'
                  /\ other \notin DOMAIN oauth10a'
                  /\ Cardinality(DOMAIN oauth10a') = Cardinality(DOMAIN oauth10a)
                  /\ oauth10a'[email].twitter_id = last'.args[2]
                  /\ oauth10a'[email].oauth_token = last'.args[3]
                  /\ oauth10a'[email].account_name = last'.data[1]
                  /\ oauth10a'[email].date_created = oauth10a[other].date_created
                  /\ HistoryLen(oauth10a', email) = HistoryLen(oauth10a, other) ]_vars

\* the function has moved a record: the user table still names the previous owner of the
\* provider id, who holds no credential record any more
C38_Witness ==
    /\ IsArchive(last)
    /\ last.outcome = "Updated"
    /\ last.args[1] \in DOMAIN oauth10a
    /\ \E other \in Users \ {last.args[1]} :
          /\ users[other].twitter_id = last.args[2]
          /\ other \notin DOMAIN oauth10a

\* C39: a PKCE re-authorization of a user who holds a credential updates that record in
\* place: the user still has one record, created when it was, whose access_token is the
\* token just issued and whose refresh_token is the one just issued if the token response
\* held one and the stored one otherwise.
C39_InPlaceUpdate ==
    [][ LET email == UserOf(last'.sess)
        IN  (/\ IsPkceCallback(last')
             /\ last'.outcome = "Reconciled"
             /\ email \in DOMAIN oauth20pkce)
            => (/\ DOMAIN oauth20pkce' = DOMAIN oauth20pkce
                /\ oauth20pkce'[email].date_created = oauth20pkce[email].date_created
                /\ oauth20pkce'[email].access_token = last'.calls[2].key
                /\ oauth20pkce'[email].refresh_token =
                      IF last'.data[3] # NONE THEN last'.data[3]
                      ELSE oauth20pkce[email].refresh_token) ]_vars

\* a re-authorization whose token response held no refresh token stored the second access
\* token and kept the refresh token of the earlier authorization
C39_Witness ==
    LET email == UserOf(last.sess)
    IN  /\ IsPkceCallback(last)
        /\ last.outcome = "Reconciled"
        /\ last.data[3] = NONE
        /\ last.calls[2].key = "pa2"
        /\ oauth20pkce[email].access_token = "pa2"
        /\ oauth20pkce[email].refresh_token = "pr1"

=============================================================================
